---- MODULE Spec2Model ----
(***************************************************************************)
(* A model of pmaudit's audit engine (src/src/pmaudit/pmauditor.py):       *)
(* PMAudit.start(), the audited command, PMAudit.finish(), as driven by    *)
(* main().  The file system is part of the state: start() and finish()     *)
(* read it with os.walk/os.stat and start() writes atimes with os.utime.   *)
(*                                                                         *)
(* Time is counted in units of 12 hours, so that DELTA (24h) is 2; every   *)
(* file-system event of the command gets a fresh tick of the clock `now'.  *)
(***************************************************************************)
EXTENDS Integers, Sequences, FiniteSets, TLC

\* ---------------------------------------------------------------- bounds
\* Number of file operations the audited command performs at most.
MaxOps == 2
\* Number of files another process may delete while a walk is under way.
MaxRaces == 1

\* ------------------------------------------------------------- constants
\* DELTA = 24 * 60 * 60 * NANOS, in the model's 12-hour time unit.
DELTA == 2
\* Python's None (size of a file that did not exist; unset time markers).
None == -3
\* Pseudo pre-state of a file that did not exist: atime -2, mtime -1.
NOATIME == -2
NOMTIME == -1
\* ------------------------------------------------------ the watched trees
\* self.watchdirs, in order.
watchdirs == <<"d1", "d2">>
\* Regular files that may exist under the watch roots.  "e" is a file whose
\* name matches an exclude glob (say the JSON file of an earlier audit).
Files == {"a", "b", "c", "e"}
\* "l" is a symbolic link to the file "a" (dangling while "a" is absent),
\* "ld" is a symbolic link to a directory.
Links == {"l"}
DirLinks == {"ld"}
Names == Files \cup Links \cup DirLinks
Target(n) == IF n = "l" THEN "a" ELSE n
\* The watch root a name lives under.
DirOf(n) == IF n \in {"b", "c"} THEN "d2" ELSE "d1"

Roots == {watchdirs[i] : i \in DOMAIN watchdirs}

\* A file absent from the file system.
Absent == [exists |-> FALSE, atime |-> 0, mtime |-> 0, size |-> 0]
File(a, m, s) == [exists |-> TRUE, atime |-> a, mtime |-> m, size |-> s]

\* The atime/mtime pairs a file may have before the audit: atime earlier
\* than, equal to and later than mtime.
OldPairs(f) ==
    IF f = "a" THEN {<<4, 5>>, <<5, 5>>, <<6, 5>>} ELSE {<<5, 5>>}

\* ------------------------------------------------------- pure functions

\* fnmatch(name, pattern) for pattern in exclude_set
Excluded(n) == n = "e"

\* self.reffile and fnmatch(op.basename(path), self.reffile); the patterns
\* modelled are none ("") and "[bc]", which matches no, one or two files
\* according to which of b and c exist.
RefPatterns == {"", "[bc]"}
IsRefFile(reffile, n) == reffile = "[bc]" /\ n \in {"b", "c"}

\* mkflags and ' -j' in mkflags
MkFlags == {"", " -j2"}
\* Variant: the flag is looked for without its leading blank.
HasJ_NoBlank(m) == m \in {"-j2"}
HasJ(m) == m \in {" -j2"}
ParallelMode(m) == m # "" /\ HasJ(m)

\* os.walk: the non-directory entries of a root that exist now.  A link to
\* a directory is listed among the directories and is not followed.
Exists(fs, links, n) ==
    IF n \in Files THEN fs[n].exists
    ELSE IF n \in Links THEN n \in links
    ELSE TRUE
FNames(fs, links, root) ==
    {n \in Names : /\ DirOf(n) = root
                   /\ Exists(fs, links, n)
                   /\ n \notin DirLinks
                   /\ ~Excluded(n)}

\* os.stat(path) follows symbolic links: the result is the target's state,
\* and it fails (exists = FALSE) when the target is missing.
Stat(fs, n) == fs[Target(n)]

\* stat.S_ISLNK(stats.st_mode) on the result of os.stat: never true, the
\* mode is the target's.
S_ISLNK(n) == FALSE

\* All orders in which a directory walk may visit a set of names.
Orders(S) ==
    {s \in [1..Cardinality(S) -> S] : \A i, j \in 1..Cardinality(S) :
                                          s[i] = s[j] => i = j}

\* The file system after other processes deleted the files in gone.
Delete(fsx, gone) == [f \in Files |-> IF f \in gone THEN Absent ELSE fsx[f]]

\* Extending a dict: d[k] = v
Put(d, k, v) == [x \in DOMAIN d \cup {k} |-> IF x = k THEN v ELSE d[x]]
EmptyDict == [x \in {} |-> 0]

VARIABLES
    fs,            \* the file system: Files -> state
    links,         \* the symbolic links that exist
    testfiles,     \* roots holding a probe file of start()
    now,           \* the clock
    mkflags,       \* os.getenv('MAKEFLAGS')
    reffile,       \* self.reffile
    pre_state,     \* self.pre_state
    post_state,    \* self.post_state
    reffiles,      \* finish(): the local list reffiles
    prereqs, intermediates, finals, unused,
    starttime, reftime, endtime,
    pc,            \* where main() is
    err,           \* the exception that ended main(), "" if none
    ran,           \* subprocess.call has been entered
    ops,           \* file operations the command has done
    fs0,           \* history: the file system when start() was called,
                   \* then the one the command found
    wonly,         \* history: files the command created and only wrote
    access,        \* history: "r" for a file the command read last, "rw"
                   \* for one it read and then wrote
    utimed,        \* history: paths start() has passed to os.utime
    flushroots,    \* history: the roots whose probe set needflush
    noflush        \* history: <<walk, path>> for each file of such a root
                   \* stat-ed by a walk without a flush just before

vars == <<fs, links, testfiles, now, mkflags, reffile, pre_state, post_state,
          reffiles, prereqs, intermediates, finals, unused, starttime,
          reftime, endtime, pc, err, ran, ops, fs0, wonly, access, utimed,
          flushroots, noflush>>

\* The state after PMAudit.__init__, with any content of the watched trees.
Init ==
    /\ fs \in [Files -> {Absent} \cup
                 {File(a, m, 1) : a \in 4..6, m \in 5..5}]
    /\ \A f \in Files :
          fs[f].exists => <<fs[f].atime, fs[f].mtime>> \in OldPairs(f)
    /\ fs["e"].exists
    /\ links \in SUBSET Links
    /\ testfiles = {}
    /\ now = 7
    /\ mkflags \in MkFlags
    /\ reffile \in RefPatterns
    /\ pre_state = EmptyDict
    /\ post_state = EmptyDict
    /\ reffiles = <<>>
    /\ prereqs = EmptyDict
    /\ intermediates = EmptyDict
    /\ finals = EmptyDict
    /\ unused = EmptyDict
    /\ starttime = None
    /\ reftime = None
    /\ endtime = None
    /\ pc = "init"
    /\ err = ""
    /\ ran = FALSE
    /\ ops = 0
    /\ fs0 = fs
    /\ wonly = {}
    /\ access = [f \in Files |-> ""]
    /\ utimed = {}
    /\ flushroots = {}
    /\ noflush = {}

\* ------------------------------------------------------------ nfs_flush

\* open(path) succeeds: the file (or a link's target) is there.  The probe
\* file of start() exists whenever it is flushed.
CanOpen(fsx, n) == n = "testfile" \/ Stat(fsx, n).exists

\* nfs_flush(priors, host): the exception it ends with, "" if none.
\* With a host and a path that needs flushing, time.localtime() is handed
\* (oldest - DELTA) in nanoseconds where it expects seconds, which is out
\* of range for every present-day timestamp: OSError.  Otherwise every
\* path of priors is opened (and locked, unlocked), in sorted order.
NfsFlush(priors, host, fsx) ==
    IF host /\ \E p \in DOMAIN priors : priors[p].needflush
    THEN "OSError"
    ELSE IF \E p \in DOMAIN priors : ~CanOpen(fsx, p)
         THEN "FileNotFoundError"
         ELSE ""

\* sorted(priors), over the names of the model.
SortedNames == <<"a", "b", "c", "e", "l", "ld">>

\* The flushes nfs_flush(priors) makes without a host, in order: one for
\* every path of priors, whatever its needflush.
FlushTrace(priors) ==
    [i \in 1..Len(SelectSeq(SortedNames, LAMBDA n : n \in DOMAIN priors)) |->
        [op |-> "flush",
         path |-> SelectSeq(SortedNames, LAMBDA n : n \in DOMAIN priors)[i]]]

\* The paths a trace of flushes and stats shows stat-ed without a flush of
\* the same path just before.
Unflushed(trace) ==
    {trace[i].path : i \in {j \in DOMAIN trace :
        /\ trace[j].op = "stat"
        /\ ~(j > 1 /\ trace[j - 1].op = "flush"
                   /\ trace[j - 1].path = trace[j].path)}}

\* ---------------------------------------------------------------- start

\* How a watched file system makes atime updates visible.
FsModes == {"local", "nfs", "noatime"}

\* The atime os.stat reports for the probe file after it was read: the
\* time of the read (not before mtime) when the update is visible, else
\* the atime os.utime had set.
ProbeAtime(mode, mtime, flushed) ==
    IF mode = "local" \/ (mode = "nfs" /\ flushed)
    THEN mtime
    ELSE mtime - DELTA

\* The probe of one watch root.  removed: os.remove(testfile) was reached.
Probe(mode, host, keep_going, t) ==
    LET mtime == t
        needflush == ProbeAtime(mode, mtime, FALSE) < mtime
        ferr == NfsFlush([p \in {"testfile"} |->
                             [atime |-> ProbeAtime(mode, mtime, FALSE),
                              mtime |-> mtime, size |-> 1,
                              needflush |-> TRUE]], host, fs)
    IN  IF ~needflush
        THEN [needflush |-> FALSE, err |-> "", removed |-> TRUE]
        ELSE IF ferr # ""
        THEN [needflush |-> TRUE, err |-> ferr, removed |-> FALSE]
        ELSE IF ProbeAtime(mode, mtime, TRUE) < mtime /\ ~keep_going
        THEN [needflush |-> TRUE, err |-> "atime", removed |-> FALSE]
        ELSE [needflush |-> TRUE, err |-> "", removed |-> TRUE]

\* Variant: a file whose atime equals its mtime is left alone.
NeedsPriming_Gt(atime, mtime) == atime > mtime
\* if atime >= mtime:
NeedsPriming(atime, mtime) == atime >= mtime
\*     atime = mtime - DELTA
PrimedAtime(atime, mtime) ==
    IF NeedsPriming(atime, mtime) THEN mtime - DELTA ELSE atime

\* The body of the pre-run walk for one file name.
StepPre(st, n, needflush) ==
    IF st.err # "" THEN st
    ELSE
    LET stats == Stat(st.fs, n) IN
    IF ~stats.exists THEN [st EXCEPT !.err = "FileNotFoundError"]
    ELSE IF S_ISLNK(n)
    THEN [st EXCEPT !.trace = Append(@, [op |-> "stat", path |-> n])]
    ELSE
    LET atime == PrimedAtime(stats.atime, stats.mtime)
        prime == NeedsPriming(stats.atime, stats.mtime)
    IN  [st EXCEPT
            !.trace = Append(@, [op |-> "stat", path |-> n]),
            !.fs = IF prime THEN [@ EXCEPT ![Target(n)].atime = atime]
                            ELSE @,
            !.utimed = IF prime THEN @ \cup {n} ELSE @,
            !.pre = Put(@, n, [atime |-> atime, mtime |-> stats.mtime,
                               size |-> stats.size,
                               needflush |-> needflush])]

RECURSIVE WalkPre(_, _, _, _)
WalkPre(st, order, i, needflush) ==
    IF i > Len(order) THEN st
    ELSE WalkPre(StepPre(st, order[i], needflush), order, i + 1, needflush)

\* for watchdir in self.watchdirs: probe, then walk.  goneStat are the
\* files another process deletes between os.walk's listing of their
\* directory and their os.stat.
RECURSIVE StartRoots(_, _, _, _, _, _, _)
StartRoots(st, i, modes, host, keep_going, orders, goneStat) ==
    IF i > Len(watchdirs) \/ st.err # "" THEN st
    ELSE
    LET root == watchdirs[i]
        pr == Probe(modes[root], host, keep_going, now)
        listed == [st EXCEPT
                     !.fs = Delete(@, {f \in goneStat : DirOf(f) = root}),
                     !.flushroots = IF pr.needflush THEN @ \cup {root}
                                                    ELSE @]
    IN  IF pr.err # "" \/ ~pr.removed
        THEN [st EXCEPT !.err = pr.err,
                        !.testfiles = @ \cup {root}]
        ELSE StartRoots(WalkPre(listed, orders[root], 1, pr.needflush),
                        i + 1, modes, host, keep_going, orders, goneStat)

\* The races a walk may lose: files deleted before their stat, files
\* deleted after the walk.
Races(fsx, lnk) ==
    {g \in [stat : SUBSET Files, flush : SUBSET Files] :
        /\ g.stat \cap g.flush = {}
        /\ Cardinality(g.stat \cup g.flush) <= MaxRaces
        /\ \A f \in g.stat \cup g.flush : fsx[f].exists /\ ~Excluded(f)}

\* PMAudit.start(flush_host, keep_going), called by main().
Start ==
    /\ pc = "init"
    /\ \E keep_going \in BOOLEAN, host \in BOOLEAN,
          modes \in [Roots -> FsModes],
          orders \in [Roots -> UNION {Orders(FNames(fs, links, r)) :
                                          r \in Roots}],
          gone \in Races(fs, links) :
        /\ \A r \in Roots : orders[r] \in Orders(FNames(fs, links, r))
        /\ IF ParallelMode(mkflags)
           THEN /\ pc' = "error"
                /\ err' = "parallel"
                /\ UNCHANGED <<fs, testfiles, pre_state, utimed,
                               starttime, reftime, flushroots, noflush>>
           ELSE
           LET st0 == [fs |-> fs, pre |-> pre_state, err |-> "",
                       utimed |-> utimed, testfiles |-> testfiles,
                       flushroots |-> flushroots, trace |-> <<>>]
               st1 == StartRoots(st0, 1, modes, host, keep_going, orders,
                                 gone.stat)
               fs2 == Delete(st1.fs, gone.flush)
               ferr == NfsFlush(st1.pre, host, fs2)
               trace == IF st1.err = "" /\ ferr = ""
                        THEN st1.trace \o FlushTrace(st1.pre)
                        ELSE st1.trace
           IN  /\ pre_state' = st1.pre
               /\ flushroots' = st1.flushroots
               /\ noflush' = {<<"pre", p>> : p \in
                                {q \in DOMAIN st1.pre \cap Unflushed(trace) :
                                    st1.pre[q].needflush}}
               /\ utimed' = st1.utimed
               /\ testfiles' = st1.testfiles
               /\ IF st1.err # ""
                  THEN /\ fs' = st1.fs
                       /\ pc' = "error"
                       /\ err' = st1.err
                       /\ UNCHANGED <<starttime, reftime>>
                  ELSE IF ferr # ""
                  THEN /\ fs' = fs2
                       /\ pc' = "error"
                       /\ err' = ferr
                       /\ UNCHANGED <<starttime, reftime>>
                  ELSE /\ fs' = fs2
                       /\ pc' = "started"
                       /\ err' = ""
                       /\ starttime' = now
                       /\ reftime' = now
    /\ UNCHANGED <<links, now, mkflags, reffile, post_state, reffiles,
                   prereqs, intermediates, finals, unused, endtime, ran,
                   ops, fs0, wonly, access>>

\* ---------------------------------------------------- the audited command

\* main(): rc = subprocess.call(cmd)
SubprocessCall ==
    /\ pc = "started"
    /\ pc' = "cmd"
    /\ ran' = TRUE
    /\ fs0' = fs
    /\ UNCHANGED <<fs, links, testfiles, now, mkflags, reffile, pre_state,
                   post_state, reffiles, prereqs, intermediates, finals,
                   unused, starttime, reftime, endtime, err, ops, wonly,
                   access, utimed, flushroots, noflush>>

\* The files the command works on.
CmdFiles == {f \in Files : ~Excluded(f)}

CmdFrame ==
    /\ pc = "cmd"
    /\ ops < MaxOps
    /\ ops' = ops + 1
    /\ now' = now + 1
    /\ UNCHANGED <<links, testfiles, mkflags, reffile, pre_state,
                   post_state, reffiles, prereqs, intermediates, finals,
                   unused, starttime, reftime, endtime, pc, err, ran, fs0,
                   utimed, flushroots, noflush>>

\* The command creates a file: atime = mtime = the time of creation.
CmdCreate ==
    /\ CmdFrame
    /\ \E f \in CmdFiles :
        /\ ~fs[f].exists
        /\ fs' = [fs EXCEPT ![f] = File(now', now', 1)]
        /\ wonly' = wonly \cup {f}
        /\ access' = [access EXCEPT ![f] = ""]

\* The command writes to a file: mtime advances, atime does not.
CmdWrite ==
    /\ CmdFrame
    /\ \E f \in CmdFiles :
        /\ fs[f].exists
        /\ fs' = [fs EXCEPT ![f].mtime = now', ![f].size = 2]
        /\ wonly' = wonly
        /\ access' = [access EXCEPT ![f] = IF @ = "" THEN "" ELSE "rw"]

\* The command reads a file: atime advances, mtime does not.
CmdRead ==
    /\ CmdFrame
    /\ \E f \in CmdFiles :
        /\ fs[f].exists
        /\ fs' = [fs EXCEPT ![f].atime = now']
        /\ wonly' = wonly \ {f}
        /\ access' = [access EXCEPT ![f] = "r"]

\* The command removes a file.
CmdDelete ==
    /\ CmdFrame
    /\ \E f \in CmdFiles :
        /\ fs[f].exists
        /\ fs' = [fs EXCEPT ![f] = Absent]
        /\ wonly' = wonly \ {f}
        /\ access' = [access EXCEPT ![f] = ""]

\* The command brings in a file with its old timestamps (cp -p, mv from an
\* unwatched directory): atime and mtime from before the audit.
CmdPreserve ==
    /\ CmdFrame
    /\ \E f \in CmdFiles :
        /\ ~fs[f].exists
        /\ fs' = [fs EXCEPT ![f] = File(5, 5, 1)]
        /\ wonly' = wonly \ {f}
        /\ access' = [access EXCEPT ![f] = ""]

\* --------------------------------------------------------------- finish

\* The body of the post-run walk for one file name.  stats is the local
\* variable of finish() holding the last os.stat result (its st_size).
StepPost(st, n, ref) ==
    IF st.err # "" THEN st
    ELSE
    LET stats == Stat(st.fs, n)
        data == [atime |-> stats.atime, mtime |-> stats.mtime,
                 size |-> stats.size]
    IN  IF ~stats.exists THEN [st EXCEPT !.err = "FileNotFoundError"]
        ELSE IF S_ISLNK(n)
        THEN [st EXCEPT !.stats = stats.size,
                        !.trace = Append(@, [op |-> "stat", path |-> n])]
        ELSE IF ref # "" /\ IsRefFile(ref, n)
        THEN [st EXCEPT !.stats = stats.size,
                        !.trace = Append(@, [op |-> "stat", path |-> n]),
                        !.reffiles = Append(@, [path |-> n, data |-> data])]
        ELSE [st EXCEPT !.stats = stats.size,
                        !.trace = Append(@, [op |-> "stat", path |-> n]),
                        !.post = Put(@, n, data)]

RECURSIVE WalkPost(_, _, _, _)
WalkPost(st, order, i, ref) ==
    IF i > Len(order) THEN st
    ELSE WalkPost(StepPost(st, order[i], ref), order, i + 1, ref)

RECURSIVE FinishRoots(_, _, _, _, _)
FinishRoots(st, i, ref, orders, goneStat) ==
    IF i > Len(watchdirs) \/ st.err # "" THEN st
    ELSE
    LET root == watchdirs[i]
        listed == [st EXCEPT
                     !.fs = Delete(@, {f \in goneStat : DirOf(f) = root})]
    IN  FinishRoots(WalkPost(listed, orders[root], 1, ref),
                    i + 1, ref, orders, goneStat)

\* if self.reffile: the RuntimeError raised, "" if none.
RefError(ref, rfs) ==
    IF ref = "" THEN ""
    ELSE IF Len(rfs) > 1 THEN "multiple"
    ELSE IF Len(rfs) = 0 THEN "notfound"
    ELSE ""

\* self.reftime after the ref file was looked for.
RefTime(ref, rfs, rt) ==
    IF ref # "" THEN rfs[1].data.mtime ELSE rt

\* Variant: a new file with mtime = atime goes with the intermediates.
CategoryNew_EqInter(atime, mtime, rt) ==
    IF mtime <= rt THEN "prereqs"
    ELSE "intermediates"
\* Variant: the read-after-write test is the wrong way round.
CategoryNew_LtFinal(atime, mtime, rt) ==
    IF mtime <= rt THEN "prereqs"
    ELSE IF mtime > atime THEN "intermediates"
    ELSE "finals"
\* The category of a file that is not in pre_state.
CategoryNew(atime, mtime, rt) ==
    IF mtime <= rt THEN "prereqs"
    ELSE IF mtime < atime THEN "intermediates"
    ELSE IF mtime > atime THEN "intermediates"
    ELSE "finals"

\* Variant: a modified pre-existing file gets a category of its own, the
\* "modified source" of the module docstring, which has no dict.
CategoryOld_Modified(atime, mtime, pstate) ==
    IF atime > pstate.atime
    THEN IF mtime > pstate.mtime
         THEN IF mtime > atime THEN "finals" ELSE "intermediates"
         ELSE "prereqs"
    ELSE IF mtime > pstate.mtime THEN "modified"
    ELSE "unused"
\* Variant: an atime that did not move counts as a read.
CategoryOld_AtimeGe(atime, mtime, pstate) ==
    IF atime >= pstate.atime
    THEN IF mtime > pstate.mtime
         THEN IF mtime > atime THEN "finals" ELSE "intermediates"
         ELSE "prereqs"
    ELSE IF mtime > pstate.mtime THEN "finals"
    ELSE "unused"
\* Variant: an mtime that did not move counts as a write.
CategoryOld_MtimeGe(atime, mtime, pstate) ==
    IF atime > pstate.atime
    THEN IF mtime >= pstate.mtime
         THEN IF mtime > atime THEN "finals" ELSE "intermediates"
         ELSE "prereqs"
    ELSE IF mtime > pstate.mtime THEN "finals"
    ELSE "unused"
\* Variant: the two outcomes of a file both read and written are swapped.
CategoryOld_Swapped(atime, mtime, pstate) ==
    IF atime > pstate.atime
    THEN IF mtime > pstate.mtime
         THEN IF mtime > atime THEN "intermediates" ELSE "finals"
         ELSE "prereqs"
    ELSE IF mtime > pstate.mtime THEN "finals"
    ELSE "unused"
\* The category of a file that is in pre_state with state pstate.
CategoryOld(atime, mtime, pstate) ==
    IF atime > pstate.atime
    THEN IF mtime > pstate.mtime
         THEN IF mtime > atime THEN "finals" ELSE "intermediates"
         ELSE "prereqs"
    ELSE IF mtime > pstate.mtime THEN "finals"
    ELSE "unused"

Category(path, post, pre, rt) ==
    IF path \notin DOMAIN pre
    THEN CategoryNew(post[path].atime, post[path].mtime, rt)
    ELSE CategoryOld(post[path].atime, post[path].mtime, pre[path])

\* The record stored for a path; stale is stats.st_size, the size of the
\* file the post-run walk stat-ed last.
NState(path, post, pre, rt, stale) ==
    LET state == post[path] IN
    IF path \notin DOMAIN pre
    THEN [atime |-> <<NOATIME, state.atime>>,
          mtime |-> <<NOMTIME, state.mtime>>,
          size |-> <<None, stale>>]
    ELSE IF Category(path, post, pre, rt) = "unused"
    THEN [atime |-> <<pre[path].atime, 0>>,
          mtime |-> <<pre[path].mtime, 0>>,
          size |-> <<pre[path].size, pre[path].size>>]
    ELSE [atime |-> <<pre[path].atime, state.atime>>,
          mtime |-> <<pre[path].mtime, state.mtime>>,
          size |-> <<pre[path].size, stale>>]

\* One of the four dicts after the classification loop.
Classified(cat, post, pre, rt, stale) ==
    [p \in {q \in DOMAIN post : Category(q, post, pre, rt) = cat} |->
        NState(p, post, pre, rt, stale)]

\* PMAudit.finish(cmd, final_cmd), called by main().
Finish ==
    /\ pc = "cmd"
    /\ endtime' = now
    /\ \E orders \in [Roots -> UNION {Orders(FNames(fs, links, r)) :
                                          r \in Roots}],
          gone \in Races(fs, links) :
        /\ \A r \in Roots : orders[r] \in Orders(FNames(fs, links, r))
        /\ gone.flush = {}
        /\ LET st0 == [fs |-> fs, post |-> post_state, err |-> "",
                       reffiles |-> reffiles, stats |-> None,
                       trace |-> <<>>]
               st1 == FinishRoots(st0, 1, reffile, orders, gone.stat)
               rerr == RefError(reffile, st1.reffiles)
               rt == RefTime(reffile, st1.reffiles, reftime)
           IN  /\ fs' = st1.fs
               /\ post_state' = st1.post
               /\ noflush' = noflush \cup
                     {<<"post", p>> : p \in
                        {q \in Unflushed(st1.trace) :
                            /\ DirOf(q) \in flushroots
                            /\ \/ q \in DOMAIN st1.post
                               \/ \E i \in DOMAIN st1.reffiles :
                                      st1.reffiles[i].path = q}}
               /\ reffiles' = st1.reffiles
               /\ IF st1.err # "" \/ rerr # ""
                  THEN /\ pc' = "error"
                       /\ err' = IF st1.err # "" THEN st1.err ELSE rerr
                       /\ UNCHANGED <<reftime, prereqs, intermediates,
                                      finals, unused>>
                  ELSE /\ pc' = "done"
                       /\ err' = ""
                       /\ reftime' = rt
                       /\ prereqs' = Classified("prereqs", st1.post,
                                                pre_state, rt, st1.stats)
                       /\ intermediates' = Classified("intermediates",
                                                st1.post, pre_state, rt,
                                                st1.stats)
                       /\ finals' = Classified("finals", st1.post,
                                               pre_state, rt, st1.stats)
                       /\ unused' = Classified("unused", st1.post,
                                               pre_state, rt, st1.stats)
    /\ UNCHANGED <<links, testfiles, now, mkflags, reffile, pre_state,
                   starttime, ran, ops, fs0, wonly, access, utimed,
                   flushroots>>

Next ==
    \/ Start
    \/ SubprocessCall
    \/ CmdCreate
    \/ CmdWrite
    \/ CmdRead
    \/ CmdDelete
    \/ CmdPreserve
    \/ Finish

Spec == Init /\ [][Next]_vars

TypeOK ==
    /\ pc \in {"init", "started", "cmd", "done", "error"}
    /\ err \in {"", "parallel", "atime", "OSError", "FileNotFoundError",
                "multiple", "notfound"}
    /\ DOMAIN pre_state \subseteq Names
    /\ DOMAIN post_state \subseteq Names

\* ------------------------------------------------------------ properties

\* The categories a path is filed under.
CatsOf(p) ==
    {c \in {"prereqs", "intermediates", "finals", "unused"} :
        \/ c = "prereqs" /\ p \in DOMAIN prereqs
        \/ c = "intermediates" /\ p \in DOMAIN intermediates
        \/ c = "finals" /\ p \in DOMAIN finals
        \/ c = "unused" /\ p \in DOMAIN unused}

\* The paths the post-run walk stat-ed and kept: post_state and reffiles.
Walked == DOMAIN post_state \cup {reffiles[i].path : i \in DOMAIN reffiles}

\* New files: in post_state, not in pre_state.  Old files: in both.
NewPaths == DOMAIN post_state \ DOMAIN pre_state
OldPaths == DOMAIN post_state \cap DOMAIN pre_state

\* C1 as claimed: after finish() every file the post-run walk kept, the one
\* matching the start-file pattern included, is in exactly one of the four
\* dicts.
C1_AllWalkedClassified ==
    pc = "done" => \A p \in Walked : Cardinality(CatsOf(p)) = 1

\* C1 as amended: after finish() every path of post_state (the walked files
\* that do not match the start-file pattern) is in exactly one of the four
\* dicts, and the file matching the start-file pattern is in none.
C1_PostStateClassified ==
    pc = "done" =>
        /\ \A p \in DOMAIN post_state : Cardinality(CatsOf(p)) = 1
        /\ \A p \in Walked \ DOMAIN post_state : CatsOf(p) = {}
        /\ \A p \in Names \ Walked : CatsOf(p) = {}

C1_Witness ==
    /\ pc = "done"
    /\ Cardinality(DOMAIN post_state) >= 2
    /\ Len(reffiles) = 1

\* C2: a path in both snapshots whose atime and mtime are the recorded
\* pre-run ones is in unused and nowhere else.
C2_UnchangedIsUnused ==
    pc = "done" =>
        \A p \in OldPaths :
            (/\ post_state[p].atime = pre_state[p].atime
             /\ post_state[p].mtime = pre_state[p].mtime)
            => CatsOf(p) = {"unused"}

C2_Witness ==
    /\ pc = "done"
    /\ \E p \in OldPaths :
        /\ post_state[p].atime = pre_state[p].atime
        /\ post_state[p].mtime = pre_state[p].mtime
    /\ \E q \in OldPaths : post_state[q].atime > pre_state[q].atime

\* C3: a path in both snapshots whose atime advanced and whose mtime is
\* the recorded pre-run one is in prereqs and nowhere else.
C3_ReadOnlyIsPrereq ==
    pc = "done" =>
        \A p \in OldPaths :
            (/\ post_state[p].atime > pre_state[p].atime
             /\ post_state[p].mtime = pre_state[p].mtime)
            => CatsOf(p) = {"prereqs"}

C3_Witness ==
    /\ pc = "done"
    /\ \E p \in OldPaths :
        /\ post_state[p].atime > pre_state[p].atime
        /\ post_state[p].mtime = pre_state[p].mtime

\* C4 as claimed: a new path with mtime = atime is in finals, whatever the
\* reference time.
C4_NewEqualIsFinal ==
    pc = "done" =>
        \A p \in NewPaths :
            post_state[p].mtime = post_state[p].atime
            => p \in DOMAIN finals

\* C4 as amended: a new path with mtime = atime is in finals (only) when
\* its mtime is later than the reference time, and in prereqs (only) when
\* it is not.
C4_NewEqualAfterRefIsFinal ==
    pc = "done" =>
        \A p \in NewPaths :
            post_state[p].mtime = post_state[p].atime
            => CatsOf(p) = IF post_state[p].mtime > reftime
                           THEN {"finals"} ELSE {"prereqs"}

C4_Witness ==
    /\ pc = "done"
    /\ \E p \in NewPaths :
        /\ post_state[p].mtime = post_state[p].atime
        /\ post_state[p].mtime > reftime
        /\ reftime > starttime

\* C5 as claimed: a new path with mtime < atime is in intermediates,
\* whatever the reference time.
C5_NewReadIsIntermediate ==
    pc = "done" =>
        \A p \in NewPaths :
            post_state[p].mtime < post_state[p].atime
            => p \in DOMAIN intermediates

\* C5 as amended: a new path with mtime < atime is in intermediates (only)
\* when its mtime is later than the reference time, and in prereqs (only)
\* when it is not.
C5_NewReadAfterRefIsIntermediate ==
    pc = "done" =>
        \A p \in NewPaths :
            post_state[p].mtime < post_state[p].atime
            => CatsOf(p) = IF post_state[p].mtime > reftime
                           THEN {"intermediates"} ELSE {"prereqs"}

C5_Witness ==
    /\ pc = "done"
    /\ \E p \in NewPaths :
        /\ post_state[p].mtime < post_state[p].atime
        /\ post_state[p].mtime > reftime

\* C6 as claimed: a file the command created and only wrote, however many
\* times, is a final target.
C6_WriteOnlyIsFinal ==
    pc = "done" =>
        \A f \in wonly \cap DOMAIN post_state : f \in DOMAIN finals

\* The on-disk state a path had when start() was called, and has now.
Then(p) == Stat(fs0, p)
Now(p) == Stat(fs, p)

\* C7 as claimed: when start() returns every file of pre_state has on-disk
\* atime = mtime - DELTA, its mtime of before, and that atime in pre_state.
C7_AllPrimedToDelta ==
    pc = "started" =>
        \A p \in DOMAIN pre_state :
            /\ Now(p).atime = Now(p).mtime - DELTA
            /\ Now(p).mtime = Then(p).mtime
            /\ pre_state[p].atime = Now(p).atime

\* C7 as amended: when start() returns every file of pre_state has its
\* mtime of before and an on-disk atime earlier than its mtime, which is
\* mtime - DELTA if its atime was not earlier than its mtime and its atime
\* of before otherwise; pre_state holds that atime and that mtime.
C7_AllAtimesBehind ==
    pc = "started" =>
        \A p \in DOMAIN pre_state :
            /\ Now(p).exists
            /\ Now(p).mtime = Then(p).mtime
            /\ Now(p).atime < Now(p).mtime
            /\ Now(p).atime = IF Then(p).atime >= Then(p).mtime
                              THEN Then(p).mtime - DELTA
                              ELSE Then(p).atime
            /\ pre_state[p].atime = Now(p).atime
            /\ pre_state[p].mtime = Now(p).mtime

C7_Witness ==
    /\ pc = "started"
    /\ \E p \in DOMAIN pre_state : Then(p).atime < Then(p).mtime
    /\ \E p \in DOMAIN pre_state : Then(p).atime >= Then(p).mtime

\* C8 as claimed: no configuration error (parallel build, no or several
\* start files) is raised once the command has been run.
C8_ConfigErrorsBeforeCommand ==
    err \in {"parallel", "multiple", "notfound"} => ~ran

\* C8 as amended: under a parallel build start() raises and the command is
\* never run; the start-file errors are raised by finish(), after the
\* command has been run.
C8_ParallelBeforeRefAfter ==
    /\ mkflags = " -j2" => ~ran /\ pc \in {"init", "error"}
    /\ pc = "error" /\ mkflags = " -j2" => err = "parallel"
    /\ err = "parallel" => ~ran
    /\ err \in {"multiple", "notfound"} => ran

C8_Witness ==
    /\ pc = "error"
    /\ err = "multiple"
    /\ ran

\* C9 as claimed: no symbolic link is a key of pre_state or post_state,
\* and start() passes no symbolic link to os.utime.
C9_NoSymlinks ==
    \A l \in Links \cup DirLinks :
        /\ l \notin DOMAIN pre_state
        /\ l \notin DOMAIN post_state
        /\ l \notin utimed

\* C10 as claimed: start() and finish() do not raise when a listed file
\* cannot be stat-ed or opened.
C10_MissingFileSkipped ==
    err # "FileNotFoundError"

\* C11 as claimed: whatever the outcome of the probe, the probe file has
\* been deleted and is not in pre_state, and the command is not run once
\* start() has failed on the probe.
C11_ProbeFileAlwaysDeleted ==
    /\ testfiles = {}
    /\ "testfile" \notin DOMAIN pre_state
    /\ err = "atime" => ~ran /\ pc = "error"

RecordOf(p) ==
    IF p \in DOMAIN prereqs THEN prereqs[p]
    ELSE IF p \in DOMAIN intermediates THEN intermediates[p]
    ELSE IF p \in DOMAIN finals THEN finals[p]
    ELSE unused[p]

\* The record of the path's own values: the recorded pre-state, or the
\* sentinels, and what the post-run walk read for that path.
OwnRecord(p) ==
    IF p \in DOMAIN pre_state
    THEN [atime |-> <<pre_state[p].atime, post_state[p].atime>>,
          mtime |-> <<pre_state[p].mtime, post_state[p].mtime>>,
          size |-> <<pre_state[p].size, post_state[p].size>>]
    ELSE [atime |-> <<NOATIME, post_state[p].atime>>,
          mtime |-> <<NOMTIME, post_state[p].mtime>>,
          size |-> <<None, post_state[p].size>>]

\* C13 as claimed: in every category the record stored for a path holds
\* that path's own pre and post atime, mtime and size.
C13_RecordsHoldOwnValues ==
    pc = "done" => \A p \in DOMAIN post_state : RecordOf(p) = OwnRecord(p)

\* C14 as claimed: in the pre-run and in the post-run walk, no file of a
\* root that needs flushing is stat-ed into the snapshot without a flush of
\* that file just before the stat.
C14_FlushBeforeStat ==
    noflush = {}

\* C15 as claimed: without a start-file pattern the reference time finish()
\* reports is the start time start() recorded, and no path that is absent
\* from pre_state is placed in prereqs.
C15_NoNewPrereqWithoutRefFile ==
    pc = "done" /\ reffile = "" =>
        /\ reftime = starttime
        /\ \A p \in NewPaths : p \notin DOMAIN prereqs

====
